---- MODULE Spec2Model ----
(***************************************************************************)
(* clearmail: classification of inbound mail through an LLM backend.       *)
(*                                                                         *)
(* One state machine per component of the repository:                      *)
(*   SpecRetry    - executeOpenAIWithRetry           (src/utilities.js)     *)
(*   SpecGate     - EmailAnalyzer: gate, cache, analyze                     *)
(*                                                 (src/analyzeEmail.js)    *)
(*   SpecAnalyze  - EmailAnalyzer: the cache and the verdict of a few calls *)
(*   SpecPoolFair - EmailAnalyzer: the gate, under fair scheduling          *)
(*   SpecSession  - EmailProcessor.process: batch loop                      *)
(*                                                 (src/processEmails.js)   *)
(*   SpecAct      - processEmail, handleEmailBasedOnAnalysis: the mailbox   *)
(*                  operations of each item        (src/processEmails.js)   *)
(* A specification leaves the variables of the other components at their   *)
(* initial value.                                                           *)
(***************************************************************************)
EXTENDS Integers, Sequences, FiniteSets, TLC

VARIABLES
    \* ---- executeOpenAIWithRetry (src/utilities.js) ----
    retries,            \* parameter `retries`
    rateLimitRetry,     \* parameter `rateLimitRetry`
    attempts,           \* let attempts
    rateLimitAttempts,  \* let rateLimitAttempts
    error,              \* let error: the last error caught
    execPc,             \* position of the call: loop, calling, sleepRate, sleepBackoff, returned, thrown
    thrown,             \* the error the call ended with (when execPc = "thrown")
    calls,              \* number of invocations of openai.chat.completions.create
    failures,           \* the errors caught so far, in order
    \* ---- EmailProcessor.process (src/processEmails.js) ----
    batchSize,                  \* this.batchSize
    maxEmailsToProcessAtOnce,   \* config.settings.maxEmailsToProcessAtOnce
    processReadEmails,          \* config.settings.processReadEmails
    starAllKeptEmails,          \* config.settings.starAllKeptEmails
    mainPc,             \* position of process(): connect, getLock, fetch, loop, awaitBatch, delay, save, returned
    allMessages,        \* allMessages.length; the messages are 1..allMessages
    i,                  \* loop variable of the batch loop
    processedCount,     \* let processedCount
    errorCount,         \* let errorCount
    totalProcessed,     \* let totalProcessed
    atomicLock,         \* the Set `lock` of atomicUpdate
    taskPc,             \* position of the per-item task of each message
    outcome,            \* how processEmail(message) ended, per message
    admitted,           \* the messages passed to processEmail, in call order
    lockState,          \* the INBOX mailbox lock: none, held, released
    watermarkWrites,    \* number of calls of saveLastTimestamp
    lastTimestamp,      \* the content of the timestamp file: the time saveLastTimestamp wrote
    sessionResult,      \* the object process() returned
    \* ---- EmailAnalyzer (src/analyzeEmail.js) ----
    useLocalLLM,        \* config.settings.useLocalLLM
    requestPool,        \* this.requestPool.openai / .local: the promises in each array
    reqPc,              \* position of each analyze() call: idle, race, slot, backend, writing, done
    reqPrompt,          \* the prompt of each call
    reqCached,          \* const cached: the text each call read from its cache file
    reqRaw,             \* the text the backend call of each request returned
    reqSettled,         \* how analyzeWithOpenAI / analyzeWithLocalLLM settled, per call
    cache,              \* the cache directory: the content of <hash>.json, per hash
    \* ---- processEmail / handleEmailBasedOnAnalysis (src/processEmails.js) ----
    sortIntoCategoryFolders,    \* config.settings.sortIntoCategoryFolders
    markAllRejectedEmailsRead,  \* config.settings.markAllRejectedEmailsRead
    actPc,              \* position of processEmail(message), per uid: analyzing, flag, markRead,
                        \* open, move, create, reopen, retryMove, returnedNull, returnedAnalysis
    itemAnalysis,       \* const emailAnalysis of processEmail, per uid
    mailboxOps,         \* the calls of this.client made for each uid, in order, with their outcome
    folders,            \* the mailboxes that exist on the server
    \* ---- fixJSON (src/utilities.js) ----
    fixInput,           \* the argument `input`
    fixOutput,          \* the string fixJSON returned (<<"pending">> before it returns)
    \* ---- script mode (src/server.js) ----
    runPc,              \* position of each call of runProcessEmailsPeriodically: none,
                        \* getTimestamp, processing, finally, ended
    runResult,          \* how processEmails(timestamp) settled in each run: 200, 500, threw
    pendingTimers       \* the timers set by setTimeout(runProcessEmailsPeriodically, ...) not yet fired

retryVars == <<retries, rateLimitRetry, attempts, rateLimitAttempts, error,
               execPc, thrown, calls, failures>>

sessVars == <<batchSize, maxEmailsToProcessAtOnce, processReadEmails, starAllKeptEmails,
              mainPc, allMessages, i, processedCount, errorCount, totalProcessed,
              atomicLock, taskPc, outcome, admitted, lockState, watermarkWrites, lastTimestamp,
              sessionResult>>

gateVars == <<useLocalLLM, requestPool, reqPc, reqPrompt, reqCached, reqRaw, reqSettled,
              cache>>

actVars == <<sortIntoCategoryFolders, markAllRejectedEmailsRead, actPc, itemAnalysis,
             mailboxOps, folders>>

fixVars == <<fixInput, fixOutput>>

scriptVars == <<runPc, runResult, pendingTimers>>

vars == <<retryVars, sessVars, gateVars, actVars, fixVars, scriptVars>>

\* The variables a specification of one component leaves alone.
notRetryVars == <<sessVars, gateVars, actVars, fixVars, scriptVars>>
notSessVars == <<retryVars, gateVars, actVars, fixVars, scriptVars>>
notGateVars == <<retryVars, sessVars, actVars, fixVars, scriptVars>>
notActVars == <<retryVars, sessVars, gateVars, fixVars, scriptVars>>
notFixVars == <<retryVars, sessVars, gateVars, actVars, scriptVars>>
notScriptVars == <<retryVars, sessVars, gateVars, actVars, fixVars>>

Min(a, b) == IF a < b THEN a ELSE b

(***************************************************************************)
(* executeOpenAIWithRetry                                                  *)
(***************************************************************************)

\* Largest value of the parameter `retries` that is explored.
MaxRetriesParam == 4
\* Largest small value of the parameter `rateLimitRetry` that is explored
\* (the default is explored as well).
MaxRateLimitParam == 2

\* Defaults of the parameters.
DefaultRetries == 3
DefaultRateLimitRetry == 10

RetriesParams == 0..MaxRetriesParam \cup {DefaultRetries}
RateLimitParams == 0..MaxRateLimitParam \cup {DefaultRateLimitRetry}

\* What one attempt can fail with: an ordinary API error, the timeout of the
\* Promise.race, a response with status 429, an error whose message contains
\* 'Rate limit'.
AttemptErrors ==
    { [message |-> "Other",      status |-> 500],
      [message |-> "Timeout",    status |-> 0],
      [message |-> "Other",      status |-> 429],
      [message |-> "Rate limit", status |-> 0] }

NoError == [message |-> "undefined", status |-> 0, at |-> 0]

\* new Error(`Rate limit exceeded after ${rateLimitRetry} attempts`)
RateLimitExceeded == [message |-> "Rate limit exceeded", status |-> 0, at |-> 0]

\* e.message.includes('Rate limit') || e.status === 429
IsRateLimit(e) == e.message \in {"Rate limit", "Rate limit exceeded"} \/ e.status = 429

\* The state of executeOpenAIWithRetry when it is called with the parameters r, rl.
RetryCalled(r, rl) ==
    /\ retries = r
    /\ rateLimitRetry = rl
    /\ attempts = 0
    /\ rateLimitAttempts = 0
    /\ error = NoError
    /\ execPc = "loop"
    /\ thrown = NoError
    /\ calls = 0
    /\ failures = << >>

\* The loop condition with the boundary included: one attempt too many.
WithinRetriesInclusive(a, r) == a <= r

\* The loop condition: attempts < retries
WithinRetries(a, r) == a < r

\* while (attempts < retries) { try { result = await Promise.race([create(params), timeout]) ...
\* and, when the loop is left, throw error.
RetryLoop ==
    /\ execPc = "loop"
    /\ IF WithinRetries(attempts, retries)
         THEN /\ execPc' = "calling"
              /\ calls' = calls + 1
              /\ thrown' = thrown
         ELSE /\ execPc' = "thrown"
              /\ thrown' = error
              /\ calls' = calls
    /\ UNCHANGED <<retries, rateLimitRetry, attempts, rateLimitAttempts, error, failures>>
    /\ UNCHANGED notRetryVars

\* The attempt resolves: return result.choices[0].message.content.trim()
AttemptSucceeds ==
    /\ execPc = "calling"
    /\ execPc' = "returned"
    /\ UNCHANGED <<retries, rateLimitRetry, attempts, rateLimitAttempts, error,
                   thrown, calls, failures>>
    /\ UNCHANGED notRetryVars

\* (a catch block that counts only ordinary failures against `retries`)
AttemptsAfterOrdinaryOnly(n, e) == IF IsRateLimit(e) THEN n ELSE n + 1

\* The counters after an error was caught: error = e; attempts++;
\* and rateLimitAttempts++ when the error is a rate-limit error.
AttemptsAfter(n, e) == n + 1
RateLimitAttemptsAfter(n, e) == IF IsRateLimit(e) THEN n + 1 ELSE n

\* The attempt rejects (API error or timeout): the catch block.
AttemptFails ==
    /\ execPc = "calling"
    /\ \E k \in AttemptErrors :
         LET e == [message |-> k.message, status |-> k.status, at |-> calls]
             rl == RateLimitAttemptsAfter(rateLimitAttempts, e)
         IN  /\ error' = e
             /\ failures' = Append(failures, e)
             /\ attempts' = AttemptsAfter(attempts, e)
             /\ rateLimitAttempts' = rl
             /\ IF IsRateLimit(e)
                  THEN IF rl > rateLimitRetry
                         THEN /\ execPc' = "thrown"
                              /\ thrown' = RateLimitExceeded
                         ELSE /\ execPc' = "sleepRate"
                              /\ thrown' = thrown
                  ELSE /\ execPc' = "sleepBackoff"
                       /\ thrown' = thrown
    /\ UNCHANGED <<retries, rateLimitRetry, calls>>
    /\ UNCHANGED notRetryVars

\* await sleep(RATE_LIMIT_RETRY_DURATION); continue   /   await sleep(delay)
SleepDone ==
    /\ execPc \in {"sleepRate", "sleepBackoff"}
    /\ execPc' = "loop"
    /\ UNCHANGED <<retries, rateLimitRetry, attempts, rateLimitAttempts, error,
                   thrown, calls, failures>>
    /\ UNCHANGED notRetryVars

(***************************************************************************)
(* Backend responses, fixJSON, JSON.parse and EmailAnalyzer.analyze         *)
(***************************************************************************)

\* A text is a sequence of characters. The characters that matter to fixJSON
\* and to JSON.parse: braces, the straight and the curly double quote, the
\* backtick, the straight single quote, the five characters json\n (one
\* symbol, no replacement splits them), and one letter standing for the
\* fields of the object:
\*   t  meets_criteria true,  category "Auto/News"
\*   f  meets_criteria false, category "Auto/News"
\*   g  meets_criteria false, category "Elsewhere" (not a configured label)
\*   m  an object without the field meets_criteria
Payloads == {"t", "f", "g", "m"}

Plain(p) == <<"{", "DQ", p, "DQ", "}">>
Curly(p) == <<"{", "LDQ", p, "RDQ", "}">>
Fenced(p) == <<"BT", "BT", "BT", "json\\n">> \o Plain(p) \o <<"BT", "BT", "BT">>
Prose == <<"t">>

\* The seq with every occurrence of pat removed, scanning from the left
\* (String.prototype.replaceAll(pat, '')).
RECURSIVE RemoveAll(_, _)
RemoveAll(seq, pat) ==
    IF Len(seq) < Len(pat) THEN seq
    ELSE IF SubSeq(seq, 1, Len(pat)) = pat
           THEN RemoveAll(SubSeq(seq, Len(pat) + 1, Len(seq)), pat)
           ELSE <<Head(seq)>> \o RemoveAll(Tail(seq), pat)

\* The character replacements of fixJSON (the four .replace calls).
FixChar(c) ==
    CASE c \in {"LDQ", "RDQ"} -> "DQ"
      [] c \in {"LSQ", "RSQ"} -> "SQ"
      [] c = "BT" -> "SQ"
      [] c = "\\_" -> "_"
      [] OTHER -> c

\* (a normalisation that replaces the characters but leaves the fence)
fixJSONKeepsFence(input) == [k \in 1..Len(input) |-> FixChar(input[k])]

\* function fixJSON(input)
fixJSON(input) ==
    LET replaced == [k \in 1..Len(input) |-> FixChar(input[k])]
    IN  RemoveAll(RemoveAll(replaced, <<"SQ", "SQ", "SQ", "json\\n">>), <<"SQ", "SQ", "SQ">>)

SyntaxError == [syntaxError |-> TRUE]

\* The object a payload letter stands for.
ObjectOf(p) ==
    [ meets_criteria |-> CASE p = "t" -> "true" [] p \in {"f", "g"} -> "false" [] OTHER -> "undefined",
      category |-> IF p = "g" THEN "Elsewhere" ELSE "Auto/News",
      explanation |-> "text" ]

\* JSON.parse of a text: the object, or SyntaxError.
JSONparseText(text) ==
    IF \E p \in Payloads : text = Plain(p)
      THEN ObjectOf(text[3])
      ELSE SyntaxError

\* A value handed to JSON.parse: a string, or an object (which JSON.parse
\* converts to the string "[object Object]", no JSON text).
StringValue(text) == [type |-> "string", text |-> text]
ObjectValue(obj) == [type |-> "object", obj |-> obj]

JSONparse(value) ==
    IF value.type = "string" THEN JSONparseText(value.text) ELSE SyntaxError

\* this.defaultAnalysis
defaultAnalysis == [judgment |-> "unknown", category |-> "", explanation |-> ""]

\* How a promise settled.
Resolved(v) == [state |-> "resolved", value |-> v]
Rejected(e) == [state |-> "rejected", value |-> e]

\* (analyze without the catch of its inner try: no outer catch either, the
\* SyntaxError of JSON.parse escapes to the caller)
analyzeRethrows(settled) ==
    IF settled.state = "rejected"
      THEN Resolved(defaultAnalysis)
      ELSE LET parsedResult == JSONparse(settled.value)
           IN  IF parsedResult = SyntaxError
                 THEN Rejected(SyntaxError)
                 ELSE Resolved([judgment |-> parsedResult.meets_criteria,
                                category |-> parsedResult.category,
                                explanation |-> parsedResult.explanation])

\* What EmailAnalyzer.analyze does with the settled result of
\* analyzeWithOpenAI / analyzeWithLocalLLM: the value it returns, or throws.
analyze(settled) ==
    IF settled.state = "rejected"
      THEN Resolved(defaultAnalysis)
      ELSE LET parsedResult == JSONparse(settled.value)
           IN  IF parsedResult = SyntaxError
                 THEN Resolved(defaultAnalysis)
                 ELSE Resolved([judgment |-> parsedResult.meets_criteria,
                                category |-> parsedResult.category,
                                explanation |-> parsedResult.explanation])

\* The texts the backend answers with.
Responses == {Plain("t"), Plain("f"), Plain("g"), Plain("m"), Curly("t"), Fenced("f"), Prose}

\* The error a backend call ends with when executeOpenAIWithRetry gives up.
BackendError == [message |-> "Other", status |-> 500]

\* Every way analyzeWithOpenAI / analyzeWithLocalLLM can settle: the
\* normalised answer of the backend, an object read from the cache, a failure.
SettledValues ==
    {Resolved(StringValue(fixJSON(r))) : r \in Responses}
    \cup {Resolved(ObjectValue(ObjectOf(p))) : p \in Payloads}
    \cup {Rejected(BackendError)}

(***************************************************************************)
(* EmailAnalyzer: the request pool, the cache and analyze                   *)
(***************************************************************************)

\* Number of analyze() calls issued and of distinct prompts explored.
MaxRequests == 4
MaxPrompts == 1

\* Number of analyze() calls in the exploration of the cache.
MaxCalls == 2

\* this.requestPool.maxConcurrent
maxConcurrent == 3

Requests == 1..MaxRequests
Prompts == 1..MaxPrompts

\* The parameters of the chat completion built around a prompt.
openAIParams(prompt) == [model |-> "config.openAI.model", temperature |-> "0.7", user |-> prompt]

\* createPromptHash: the digest of JSON.stringify({ prompt, params }).
createPromptHash(prompt, params) == [md5 |-> <<prompt, params>>]

Hashes == {createPromptHash(p, openAIParams(p)) : p \in Prompts}

\* A cache file that does not exist.
NoFile == <<"ENOENT">>

\* The texts the backend answers with in the exploration of the pool: an
\* object, an object inside fence markers, and prose.
GateResponses == {Plain("f"), Fenced("f"), Prose}

NoValue == [state |-> "none"]

\* `cached` of a call that has read no file (not yet, or readFile threw).
Unassigned == <<"undefined">>

\* The state of the analyzer singleton after construction.
AnalyzerIdle ==
    /\ useLocalLLM = FALSE
    /\ requestPool = [openai |-> {}, local |-> {}]
    /\ reqPc = [r \in Requests |-> "idle"]
    /\ reqPrompt = [r \in Requests |-> 0]
    /\ reqCached = [r \in Requests |-> Unassigned]
    /\ reqRaw = [r \in Requests |-> << >>]
    /\ reqSettled = [r \in Requests |-> NoValue]
    /\ cache = [h \in Hashes |-> NoFile]

\* type === 'openai' ? this.requestPool.openai : this.requestPool.local
PoolType == IF useLocalLLM THEN "local" ELSE "openai"

\* (a pool whose every element counts as pending, settled or not)
StatusAlwaysPending(p) == "pending"

\* p.status of an element of the pool: the pool holds the promises
\* themselves, and a Promise has no property `status`.
StatusOf(p) == "undefined"

\* pool.filter((p) => p.status === 'pending')
PendingOnly(pool) == {p \in pool : StatusOf(p) = "pending"}

\* Whether the promise of a request has settled.
PromiseSettled(r) == reqPc[r] = "done"

\* analyze() is called (calls are numbered in the order they are issued) and
\* runs into waitForAvailableSlot: the pool is filtered, and while it holds
\* maxConcurrent promises or more the call awaits Promise.race of them and
\* filters again.
waitForAvailableSlotFor(r, prompts) ==
    /\ reqPc[r] \in {"idle", "race"}
    /\ reqPc[r] = "idle" => (IF r = 1 THEN TRUE ELSE reqPc[r - 1] # "idle")
    /\ reqPc[r] = "race" => \E p \in requestPool[PoolType] : PromiseSettled(p)
    /\ \E prompt \in prompts :
         reqPrompt' = [reqPrompt EXCEPT ![r] = IF reqPc[r] = "idle" THEN prompt ELSE @]
    /\ LET cleaned == PendingOnly(requestPool[PoolType])
       IN  /\ requestPool' = [requestPool EXCEPT ![PoolType] = cleaned]
           /\ reqPc' = [reqPc EXCEPT ![r] =
                          IF Cardinality(cleaned) >= maxConcurrent THEN "race" ELSE "slot"]
    /\ UNCHANGED <<useLocalLLM, reqCached, reqRaw, reqSettled, cache>>
    /\ UNCHANGED notGateVars

\* The call for any of the prompts explored.
waitForAvailableSlot(r) == waitForAvailableSlotFor(r, Prompts)

\* The error of fs.readFile (no file, storage error).
ReadError == [code |-> "ENOENT or EIO"]

\* (a cache read without its catch: the error of the lookup escapes)
LookupRethrows(e) == "rethrown"
\* catch (error) { logger.debug('Cache miss') }: whatever the read of the
\* cache file or JSON.parse threw, the call goes on to the API call.
LookupCatch(e) == "miss"

\* analyzeWithOpenAI after the slot: the hash, ensureCacheDir, and the read of
\* the cache file. A file that parses is returned (the parsed object); a
\* missing or unreadable file, or one that does not parse, is a miss: the
\* request promise is created (executeOpenAIWithRetry is called) and pushed.
CacheLookup(r) ==
    /\ ~useLocalLLM
    /\ reqPc[r] = "slot"
    /\ LET promptHash == createPromptHash(reqPrompt[r], openAIParams(reqPrompt[r]))
       IN  \E readable \in BOOLEAN :
             LET cached == IF readable /\ cache[promptHash] # NoFile
                             THEN cache[promptHash]
                             ELSE Unassigned
                 cachedData == IF cached # Unassigned
                                 THEN JSONparseText(cached)
                                 ELSE SyntaxError
                 thrownError == IF cached = Unassigned THEN ReadError ELSE SyntaxError
             IN  /\ reqCached' = [reqCached EXCEPT ![r] = cached]
                 /\ IF cachedData # SyntaxError
                      THEN /\ reqPc' = [reqPc EXCEPT ![r] = "done"]
                           /\ reqSettled' = [reqSettled EXCEPT ![r] =
                                               Resolved(ObjectValue(cachedData))]
                           /\ requestPool' = requestPool
                      ELSE IF LookupCatch(thrownError) = "miss"
                      THEN /\ reqPc' = [reqPc EXCEPT ![r] = "backend"]
                           /\ reqSettled' = reqSettled
                           /\ requestPool' = [requestPool EXCEPT !.openai = @ \cup {r}]
                      ELSE /\ reqPc' = [reqPc EXCEPT ![r] = "done"]
                           /\ reqSettled' = [reqSettled EXCEPT ![r] = Rejected(thrownError)]
                           /\ requestPool' = requestPool
    /\ UNCHANGED <<useLocalLLM, reqPrompt, reqRaw, cache>>
    /\ UNCHANGED notGateVars

\* analyzeWithLocalLLM after the slot: axios.post is called and the request
\* promise is pushed.
LocalStart(r) ==
    /\ useLocalLLM
    /\ reqPc[r] = "slot"
    /\ reqPc' = [reqPc EXCEPT ![r] = "backend"]
    /\ requestPool' = [requestPool EXCEPT !.local = @ \cup {r}]
    /\ UNCHANGED <<useLocalLLM, reqPrompt, reqCached, reqRaw, reqSettled, cache>>
    /\ UNCHANGED notGateVars

\* The backend call settles. openai: a result goes on to the cache write; a
\* failure removes the promise from the pool and is rethrown. local: the
\* result is returned through fixJSON, a failure is rethrown; the pool is
\* left alone.
BackendSettlesWith(r, texts) ==
    /\ reqPc[r] = "backend"
    /\ \E ok \in BOOLEAN :
         IF ok
           THEN \E text \in texts :
                  IF useLocalLLM
                    THEN /\ reqPc' = [reqPc EXCEPT ![r] = "done"]
                         /\ reqSettled' = [reqSettled EXCEPT ![r] =
                                             Resolved(StringValue(fixJSON(text)))]
                         /\ reqRaw' = reqRaw
                         /\ requestPool' = requestPool
                    ELSE /\ reqPc' = [reqPc EXCEPT ![r] = "writing"]
                         /\ reqRaw' = [reqRaw EXCEPT ![r] = text]
                         /\ reqSettled' = reqSettled
                         /\ requestPool' = requestPool
           ELSE /\ reqPc' = [reqPc EXCEPT ![r] = "done"]
                /\ reqSettled' = [reqSettled EXCEPT ![r] = Rejected(BackendError)]
                /\ reqRaw' = reqRaw
                /\ requestPool' = IF useLocalLLM THEN requestPool
                                  ELSE [requestPool EXCEPT !.openai = @ \ {r}]
    /\ UNCHANGED <<useLocalLLM, reqPrompt, reqCached, cache>>
    /\ UNCHANGED notGateVars

\* The backend call settles, with any of the responses explored.
BackendSettles(r) == BackendSettlesWith(r, GateResponses)

\* The error of fs.writeFile.
WriteError == [code |-> "ENOSPC or EACCES"]

\* (a cache write without its catch: the error of the write escapes)
WriteRethrows(e) == "rethrown"
\* catch (cacheError) { logger.error('Error caching response:', cacheError) }
WriteCatch(e) == "swallowed"

\* await fs.writeFile(cacheFile, result) settles (a failure is logged and
\* swallowed); the promise is removed from the pool; return fixJSON(result).
\* An error that escaped the inner try would reach the catch of the request
\* promise: removal from the pool and rethrow.
CacheWriteSettles(r) ==
    /\ reqPc[r] = "writing"
    /\ LET promptHash == createPromptHash(reqPrompt[r], openAIParams(reqPrompt[r]))
       IN  \E written \in BOOLEAN :
             /\ cache' = IF written THEN [cache EXCEPT ![promptHash] = reqRaw[r]] ELSE cache
             /\ reqSettled' = [reqSettled EXCEPT ![r] =
                                 IF written \/ WriteCatch(WriteError) = "swallowed"
                                   THEN Resolved(StringValue(fixJSON(reqRaw[r])))
                                   ELSE Rejected(WriteError)]
    /\ requestPool' = [requestPool EXCEPT !.openai = @ \ {r}]
    /\ reqPc' = [reqPc EXCEPT ![r] = "done"]
    /\ UNCHANGED <<useLocalLLM, reqPrompt, reqCached, reqRaw>>
    /\ UNCHANGED notGateVars

\* What analyze() returned (or threw) for a call that is done.
AnalyzeReturned(r) == analyze(reqSettled[r])

(***************************************************************************)
(* EmailProcessor.process: the batch pipeline                               *)
(***************************************************************************)

\* Largest number of fetched messages, batch size and processing cap explored.
MaxMessages == 4
MaxBatchSize == 2
MaxCap == 3

Messages == 1..MaxMessages

NoResult == [statusCode |-> 0]

\* { statusCode: 200, message, stats: { processed, errors, duration, totalFound } }
Completed(p, e, n) ==
    [statusCode |-> 200, processed |-> p, errors |-> e, totalFound |-> n]

\* (a process() without its outer catch: the error escapes and the promise
\* rejects, there is no result object)
Rejection == [statusCode |-> 0, rejected |-> TRUE]

\* { statusCode: 500, message: 'Error processing emails.', error }
Failed == [statusCode |-> 500]

\* The state before process() is called.
SessionIdleWith(star) ==
    /\ batchSize = 1
    /\ maxEmailsToProcessAtOnce = 1
    /\ processReadEmails = TRUE
    /\ starAllKeptEmails = star
    /\ mainPc = "idle"
    /\ allMessages = 0
    /\ i = 0
    /\ processedCount = 0
    /\ errorCount = 0
    /\ totalProcessed = 0
    /\ atomicLock = {}
    /\ taskPc = [m \in Messages |-> "none"]
    /\ outcome = [m \in Messages |-> "none"]
    /\ admitted = << >>
    /\ lockState = "none"
    /\ watermarkWrites = 0
    /\ lastTimestamp = 0
    /\ sessionResult = NoResult

SessionIdle == SessionIdleWith(FALSE)

\* Time: the fetched messages arrived at the times 1..allMessages, in the
\* order the fetch returns them, later than the watermark the session started
\* with (time 0).
ReceivedAt(m) == m

\* new Date().toISOString() at the end of the session: the wall clock, later
\* than the arrival of every message the fetch returned.
Now == {allMessages + 1}

\* (a process() whose inner try has no finally: the lock is kept)
lockReleaseSkipped(state) == state

\* finally { lock.release() }
lockRelease(state) == "released"

\* (a slice that starts one position early: it takes the last item of the
\* batch before again)
BatchOverlapping(from, size, n) == {m \in Messages : from <= m /\ m <= from + size /\ m <= n}

\* const batch = allMessages.slice(i, i + this.batchSize)
Batch(from, size, n) == {m \in Messages : from < m /\ m <= from + size /\ m <= n}

\* this.client = this.createImapConnection(); await this.client.connect();
\* if (verifyImapFolders) await this.verifyFolders();
Connect ==
    /\ mainPc = "connect"
    /\ \E ok \in BOOLEAN :
         IF ok THEN /\ mainPc' = "getLock"
                    /\ sessionResult' = sessionResult
               ELSE /\ mainPc' = "returned"
                    /\ sessionResult' = Failed
    /\ UNCHANGED <<batchSize, maxEmailsToProcessAtOnce, processReadEmails, starAllKeptEmails,
                   allMessages, i, processedCount, errorCount, totalProcessed, atomicLock,
                   taskPc, outcome, admitted, lockState, watermarkWrites, lastTimestamp>>
    /\ UNCHANGED notSessVars

\* const lock = await this.client.getMailboxLock('INBOX');
GetMailboxLock ==
    /\ mainPc = "getLock"
    /\ \E ok \in BOOLEAN :
         IF ok THEN /\ mainPc' = "fetch"
                    /\ lockState' = "held"
                    /\ sessionResult' = sessionResult
               ELSE /\ mainPc' = "returned"
                    /\ lockState' = lockState
                    /\ sessionResult' = Failed
    /\ UNCHANGED <<batchSize, maxEmailsToProcessAtOnce, processReadEmails, starAllKeptEmails,
                   allMessages, i, processedCount, errorCount, totalProcessed, atomicLock,
                   taskPc, outcome, admitted, watermarkWrites, lastTimestamp>>
    /\ UNCHANGED notSessVars

\* await this.client.mailboxOpen('INBOX'); for await (const message of
\* this.client.fetch(...)) allMessages.push(message); the counters are set
\* to 0 and the batch loop is entered. A failure leaves through finally.
FetchAll ==
    /\ mainPc = "fetch"
    /\ \E ok \in BOOLEAN, n \in 0..MaxMessages :
         IF ok THEN /\ mainPc' = "loop"
                    /\ allMessages' = n
                    /\ lockState' = lockState
                    /\ sessionResult' = sessionResult
               ELSE /\ n = 0
                    /\ mainPc' = "returned"
                    /\ allMessages' = allMessages
                    /\ lockState' = lockRelease(lockState)
                    /\ sessionResult' = Failed
    /\ i' = 0
    /\ processedCount' = 0
    /\ errorCount' = 0
    /\ totalProcessed' = 0
    /\ UNCHANGED <<batchSize, maxEmailsToProcessAtOnce, processReadEmails, starAllKeptEmails,
                   atomicLock, taskPc, outcome, admitted, watermarkWrites, lastTimestamp>>
    /\ UNCHANGED notSessVars

\* The per-item admission test: if (totalProcessed < maxEmailsToProcessAtOnce)
AdmitItem(total, cap) == total < cap

\* The synchronous part of processEmail(message), up to its first await:
\* a flagged message is skipped when read emails are not processed (the
\* call resolves with null at once), any other message is handed to simpleParser.
\* The result is the position of the task and how the call ended so far.
ProcessEmailStart(flagged) ==
    IF ~processReadEmails /\ flagged
      THEN [pc |-> "returned", outcome |-> "skipped"]
      ELSE [pc |-> "parsing", outcome |-> "none"]

\* (a session that leaves the loop without calling saveLastTimestamp)
saveLastTimestampSkipped(writes) == writes

\* await saveLastTimestamp(new Date().toISOString()), the one statement
\* between the end of the for loop and the return of the result
saveLastTimestamp(writes) == writes + 1

\* The head of the for loop, and the start of a batch: the cap test, the slice,
\* and batch.map(async (message) => ...) run up to the first await of every
\* item task. When the loop is left, saveLastTimestamp is called.
LoopHead ==
    /\ mainPc = "loop"
    /\ IF i < allMessages /\ ~(totalProcessed >= maxEmailsToProcessAtOnce)
         THEN LET batch == Batch(i, batchSize, allMessages)
                  adm == {m \in batch : AdmitItem(totalProcessed, maxEmailsToProcessAtOnce)}
              IN  \E fl \in (IF processReadEmails THEN {{}} ELSE SUBSET adm) :
                    /\ mainPc' = "awaitBatch"
                    /\ taskPc' = [m \in Messages |->
                                    IF m \in adm THEN ProcessEmailStart(m \in fl).pc
                                    ELSE IF m \in batch THEN "settled"
                                    ELSE taskPc[m]]
                    /\ outcome' = [m \in Messages |->
                                    IF m \in adm THEN ProcessEmailStart(m \in fl).outcome
                                    ELSE IF m \in batch THEN "notAdmitted"
                                    ELSE outcome[m]]
                    /\ admitted' = admitted \o
                                     SubSeq([k \in 1..MaxMessages |-> k], i + 1, i + Cardinality(adm))
                    /\ watermarkWrites' = watermarkWrites
         ELSE /\ mainPc' = "save"
              /\ watermarkWrites' = saveLastTimestamp(watermarkWrites)
              /\ UNCHANGED <<taskPc, outcome, admitted>>
    /\ UNCHANGED <<batchSize, maxEmailsToProcessAtOnce, processReadEmails, starAllKeptEmails,
                   allMessages, i, processedCount, errorCount, totalProcessed, atomicLock,
                   lockState, lastTimestamp, sessionResult>>
    /\ UNCHANGED notSessVars

\* simpleParser settles. When it resolves, emailData is built and analyzeEmail
\* is called; when it rejects (or email.from is missing) the outer catch of
\* processEmail rethrows.
ParseSettles(m) ==
    /\ taskPc[m] = "parsing"
    /\ \E ok \in BOOLEAN :
         IF ok THEN /\ taskPc' = [taskPc EXCEPT ![m] = "analyzing"]
                    /\ outcome' = outcome
               ELSE /\ taskPc' = [taskPc EXCEPT ![m] = "returned"]
                    /\ outcome' = [outcome EXCEPT ![m] = "parseThrow"]
    /\ UNCHANGED <<batchSize, maxEmailsToProcessAtOnce, processReadEmails, starAllKeptEmails,
                   mainPc, allMessages, i, processedCount, errorCount, totalProcessed,
                   atomicLock, admitted, lockState, watermarkWrites, lastTimestamp, sessionResult>>
    /\ UNCHANGED notSessVars

\* Whether handleEmailBasedOnAnalysis awaits a mailbox operation for this
\* judgment: keep flags the message only when starAllKeptEmails is set,
\* reject always opens INBOX and moves, anything else does nothing.
ActsOnMailbox(judgment) ==
    \/ judgment = "true" /\ starAllKeptEmails
    \/ judgment = "false"

\* analyzeEmail settles (it is analyze of however the backend call settled).
\* An unknown judgment returns null; otherwise handleEmailBasedOnAnalysis is
\* called, which resolves at once when it has nothing to do.
AnalyzeSettles(m) ==
    /\ taskPc[m] = "analyzing"
    /\ \E s \in SettledValues :
         LET emailAnalysis == analyze(s)
         IN  IF emailAnalysis.state = "rejected"
               THEN /\ taskPc' = [taskPc EXCEPT ![m] = "returned"]
                    /\ outcome' = [outcome EXCEPT ![m] = "apiError"]
               ELSE IF emailAnalysis.value.judgment = "unknown"
               THEN /\ taskPc' = [taskPc EXCEPT ![m] = "returned"]
                    /\ outcome' = [outcome EXCEPT ![m] =
                                     IF s.state = "rejected" THEN "classifyFailed" ELSE "unknown"]
               ELSE IF ActsOnMailbox(emailAnalysis.value.judgment)
               THEN /\ taskPc' = [taskPc EXCEPT ![m] = "acting"]
                    /\ outcome' = outcome
               ELSE /\ taskPc' = [taskPc EXCEPT ![m] = "returned"]
                    /\ outcome' = [outcome EXCEPT ![m] = "acted"]
    /\ UNCHANGED <<batchSize, maxEmailsToProcessAtOnce, processReadEmails, starAllKeptEmails,
                   mainPc, allMessages, i, processedCount, errorCount, totalProcessed,
                   atomicLock, admitted, lockState, watermarkWrites, lastTimestamp, sessionResult>>
    /\ UNCHANGED notSessVars

\* handleEmailBasedOnAnalysis settles: it resolves, or it rejects (flagging,
\* marking read, or the move and its retry failed) and the inner catch of
\* processEmail returns null.
ActionSettles(m) ==
    /\ taskPc[m] = "acting"
    /\ \E ok \in BOOLEAN :
         /\ taskPc' = [taskPc EXCEPT ![m] = "returned"]
         /\ outcome' = [outcome EXCEPT ![m] = IF ok THEN "acted" ELSE "actionFailed"]
    /\ UNCHANGED <<batchSize, maxEmailsToProcessAtOnce, processReadEmails, starAllKeptEmails,
                   mainPc, allMessages, i, processedCount, errorCount, totalProcessed,
                   atomicLock, admitted, lockState, watermarkWrites, lastTimestamp, sessionResult>>
    /\ UNCHANGED notSessVars

\* Whether processEmail ends by throwing: only what reaches its outer catch
\* is rethrown; the inner catch around analyzeEmail and
\* handleEmailBasedOnAnalysis returns null.
ProcessEmailThrows(o) == o = "parseThrow"

\* The callbacks given to atomicUpdate, on the counters
\* <<processedCount, errorCount, totalProcessed>>.
OnProcessed(c) == <<c[1] + 1, c[2], c[3] + 1>>
\* (the error callback with its increment lost)
OnErrorLost(c) == c
OnError(c) == <<c[1], c[2] + 1, c[3]>>

\* (an item task without its catch: the error escapes)
ItemTaskRethrows(o) == "rethrown"
\* What the catch of the item task does with an error: it counts it and the
\* task resolves ("caught"); an error that escaped would reject Promise.all.
ItemTaskCatch(o) == "caught"

\* The continuation of the item task once processEmail has settled:
\* await atomicUpdate(...) waits while the lock set is not empty, and
\* otherwise adds to it, runs the callback and deletes from it without
\* yielding; the task then settles.
ItemCounts(m) ==
    /\ taskPc[m] = "returned"
    /\ LET c == <<processedCount, errorCount, totalProcessed>>
       IN  IF atomicLock # {}
             THEN UNCHANGED <<processedCount, errorCount, totalProcessed, taskPc, atomicLock>>
             ELSE IF ~ProcessEmailThrows(outcome[m])
             THEN /\ processedCount' = OnProcessed(c)[1]
                  /\ errorCount' = OnProcessed(c)[2]
                  /\ totalProcessed' = OnProcessed(c)[3]
                  /\ atomicLock' = (atomicLock \cup {1}) \ {1}
                  /\ taskPc' = [taskPc EXCEPT ![m] = "settled"]
             ELSE IF ItemTaskCatch(outcome[m]) = "caught"
             THEN /\ processedCount' = OnError(c)[1]
                  /\ errorCount' = OnError(c)[2]
                  /\ totalProcessed' = OnError(c)[3]
                  /\ atomicLock' = (atomicLock \cup {1}) \ {1}
                  /\ taskPc' = [taskPc EXCEPT ![m] = "settled"]
             ELSE /\ taskPc' = [taskPc EXCEPT ![m] = "rejected"]
                  /\ UNCHANGED <<processedCount, errorCount, totalProcessed, atomicLock>>
    /\ UNCHANGED <<batchSize, maxEmailsToProcessAtOnce, processReadEmails, starAllKeptEmails,
                   mainPc, allMessages, i, outcome, admitted, lockState, watermarkWrites, lastTimestamp,
                   sessionResult>>
    /\ UNCHANGED notSessVars

\* (a join that resumes on the first task that resolves, as Promise.race would)
BatchJoinedAny(batch) == \E m \in batch : taskPc[m] = "settled"
\* await Promise.all(...) resumes once every task of the batch has resolved.
BatchJoined(batch) == \A m \in batch : taskPc[m] = "settled"
\* Promise.all rejects as soon as one task has rejected.
BatchRejected(batch) == \E m \in batch : taskPc[m] = "rejected"

\* (a loop that goes on to the next batch without the delay)
MoreBatchesNever(from, size, n) == FALSE

\* if (i + this.batchSize < allMessages.length): more messages remain after
\* this batch, so the loop sleeps batchDelayMs before its next iteration
MoreBatches(from, size, n) == from + size < n

\* After Promise.all: batch.length = 0, then the inter-batch delay when more
\* messages remain; a rejection leaves through finally (lock.release) and
\* the outer catch.
BatchDone ==
    /\ mainPc = "awaitBatch"
    /\ LET batch == Batch(i, batchSize, allMessages)
       IN  /\ BatchJoined(batch) \/ BatchRejected(batch)
           /\ IF BatchRejected(batch)
                THEN /\ mainPc' = "returned"
                     /\ lockState' = lockRelease(lockState)
                     /\ sessionResult' = Failed
                     /\ i' = i
                ELSE /\ lockState' = lockState
                     /\ sessionResult' = sessionResult
                     /\ IF MoreBatches(i, batchSize, allMessages)
                          THEN /\ mainPc' = "delay"
                               /\ i' = i
                          ELSE /\ mainPc' = "loop"
                               /\ i' = i + batchSize
    /\ UNCHANGED <<batchSize, maxEmailsToProcessAtOnce, processReadEmails, starAllKeptEmails,
                   allMessages, processedCount, errorCount, totalProcessed, atomicLock,
                   taskPc, outcome, admitted, watermarkWrites, lastTimestamp>>
    /\ UNCHANGED notSessVars

\* await new Promise(resolve => setTimeout(resolve, this.batchDelayMs)); i += batchSize
DelayDone ==
    /\ mainPc = "delay"
    /\ mainPc' = "loop"
    /\ i' = i + batchSize
    /\ UNCHANGED <<batchSize, maxEmailsToProcessAtOnce, processReadEmails, starAllKeptEmails,
                   allMessages, processedCount, errorCount, totalProcessed, atomicLock,
                   taskPc, outcome, admitted, lockState, watermarkWrites, lastTimestamp, sessionResult>>
    /\ UNCHANGED notSessVars

\* saveLastTimestamp settles: return the stats, or leave through the outer
\* catch; finally releases the lock either way.
SaveSettles ==
    /\ mainPc = "save"
    /\ \E ok \in BOOLEAN :
         /\ sessionResult' = IF ok THEN Completed(processedCount, errorCount, allMessages)
                              ELSE Failed
         /\ \E now \in Now : lastTimestamp' = IF ok THEN now ELSE lastTimestamp
    /\ mainPc' = "returned"
    /\ lockState' = lockRelease(lockState)
    /\ UNCHANGED <<batchSize, maxEmailsToProcessAtOnce, processReadEmails, starAllKeptEmails,
                   allMessages, i, processedCount, errorCount, totalProcessed, atomicLock,
                   taskPc, outcome, admitted, watermarkWrites>>
    /\ UNCHANGED notSessVars

(***************************************************************************)
(* processEmail and handleEmailBasedOnAnalysis: the mailbox operations      *)
(***************************************************************************)

\* Number of messages whose processEmail calls are explored (they overlap as
\* the tasks of one batch do).
MaxUids == 2
Uids == 1..MaxUids

\* config.categoryFolderNames (one label stands for the list) and
\* config.settings.rejectedFolderName.
categoryFolderNames == {"Auto/News"}
rejectedFolderName == "AI Rejects"

\* emailAnalysis before analyzeEmail has settled.
NoAnalysis == [judgment |-> "pending", category |-> "", explanation |-> ""]

\* processEmail has parsed every message and awaits analyzeEmail; no call
\* of this.client has been made.
ActIdle ==
    /\ sortIntoCategoryFolders = TRUE
    /\ markAllRejectedEmailsRead = TRUE
    /\ actPc = [u \in Uids |-> "analyzing"]
    /\ itemAnalysis = [u \in Uids |-> NoAnalysis]
    /\ mailboxOps = [u \in Uids |-> << >>]
    /\ folders = {"INBOX"}

\* One call of this.client and how it settled.
ClientCall(op, arg, ok) == [op |-> op, arg |-> arg, ok |-> ok]

\* (processEmail without the test for 'unknown', and a handler whose second
\* branch is a plain else: whatever is not kept is rejected)
StepAfterAnalysisNoSentinel(analysis) ==
    IF analysis.judgment = "true"
      THEN IF starAllKeptEmails THEN "flag" ELSE "returnedAnalysis"
      ELSE IF markAllRejectedEmailsRead THEN "markRead" ELSE "open"

\* (a handler that marks every rejected message read, whatever the
\* configuration says)
StepAfterAnalysisAlwaysMarks(analysis) ==
    IF analysis.judgment = "unknown" THEN "returnedNull"
    ELSE IF analysis.judgment = "true"
      THEN IF starAllKeptEmails THEN "flag" ELSE "returnedAnalysis"
    ELSE IF analysis.judgment = "false" THEN "markRead"
    ELSE "returnedAnalysis"

\* Where processEmail goes once analyzeEmail has returned: null for the
\* 'unknown' judgment; otherwise into handleEmailBasedOnAnalysis, up to its
\* first await: flag a kept message when starAllKeptEmails is set, mark a
\* rejected one read when markAllRejectedEmailsRead is set and else open
\* INBOX for the move; any other judgment does nothing.
StepAfterAnalysis(analysis) ==
    IF analysis.judgment = "unknown" THEN "returnedNull"
    ELSE IF analysis.judgment = "true"
      THEN IF starAllKeptEmails THEN "flag" ELSE "returnedAnalysis"
    ELSE IF analysis.judgment = "false"
      THEN IF markAllRejectedEmailsRead THEN "markRead" ELSE "open"
    ELSE "returnedAnalysis"

\* const folderToMoveTo
folderToMoveTo(analysis) ==
    IF sortIntoCategoryFolders THEN analysis.category ELSE rejectedFolderName

\* analyzeEmail returns (analyze never throws: it returns defaultAnalysis).
AnalyzeEmailSettles(u) ==
    /\ actPc[u] = "analyzing"
    /\ \E s \in SettledValues :
         LET analysis == analyze(s).value
         IN  /\ itemAnalysis' = [itemAnalysis EXCEPT ![u] = analysis]
             /\ actPc' = [actPc EXCEPT ![u] = StepAfterAnalysis(analysis)]
    /\ UNCHANGED <<sortIntoCategoryFolders, markAllRejectedEmailsRead, mailboxOps, folders>>
    /\ UNCHANGED notActVars

\* await this.client.messageFlagsAdd(uid, ['\\Flagged'], ...) settles; a
\* rejection leaves handleEmailBasedOnAnalysis and the inner catch of
\* processEmail returns null.
FlagSettles(u) ==
    /\ actPc[u] = "flag"
    /\ \E ok \in BOOLEAN :
         /\ mailboxOps' = [mailboxOps EXCEPT ![u] =
                             Append(@, ClientCall("messageFlagsAdd", "Flagged", ok))]
         /\ actPc' = [actPc EXCEPT ![u] = IF ok THEN "returnedAnalysis" ELSE "returnedNull"]
    /\ UNCHANGED <<sortIntoCategoryFolders, markAllRejectedEmailsRead, itemAnalysis, folders>>
    /\ UNCHANGED notActVars

\* await this.client.messageFlagsAdd(uid, ['\\Seen'], ...) settles.
MarkReadSettles(u) ==
    /\ actPc[u] = "markRead"
    /\ \E ok \in BOOLEAN :
         /\ mailboxOps' = [mailboxOps EXCEPT ![u] =
                             Append(@, ClientCall("messageFlagsAdd", "Seen", ok))]
         /\ actPc' = [actPc EXCEPT ![u] = IF ok THEN "open" ELSE "returnedNull"]
    /\ UNCHANGED <<sortIntoCategoryFolders, markAllRejectedEmailsRead, itemAnalysis, folders>>
    /\ UNCHANGED notActVars

\* await this.client.mailboxOpen('INBOX') settles; a rejection is caught
\* with the move (catch (moveError)).
MailboxOpenSettles(u) ==
    /\ actPc[u] = "open"
    /\ \E ok \in BOOLEAN :
         /\ mailboxOps' = [mailboxOps EXCEPT ![u] =
                             Append(@, ClientCall("mailboxOpen", "INBOX", ok))]
         /\ actPc' = [actPc EXCEPT ![u] = IF ok THEN "move" ELSE "create"]
    /\ UNCHANGED <<sortIntoCategoryFolders, markAllRejectedEmailsRead, itemAnalysis, folders>>
    /\ UNCHANGED notActVars

\* (a handler that runs the recovery whether or not the move succeeded)
AfterMoveAlwaysRecovers(ok) == "create"

\* After the first move: the handler returns, or catch (moveError) starts
\* the recovery.
AfterMove(ok) == IF ok THEN "returnedAnalysis" ELSE "create"

\* await this.client.messageMove(uid, folderToMoveTo, ...) settles: it can
\* succeed only when the folder exists.
MessageMoveSettles(u) ==
    /\ actPc[u] = "move"
    /\ LET folder == folderToMoveTo(itemAnalysis[u])
       IN  \E ok \in (IF folder \in folders THEN BOOLEAN ELSE {FALSE}) :
             /\ mailboxOps' = [mailboxOps EXCEPT ![u] =
                                 Append(@, ClientCall("messageMove", folder, ok))]
             /\ actPc' = [actPc EXCEPT ![u] = AfterMove(ok)]
    /\ UNCHANGED <<sortIntoCategoryFolders, markAllRejectedEmailsRead, itemAnalysis, folders>>
    /\ UNCHANGED notActVars

\* await this.client.mailboxCreate(folderToMoveTo) settles; a rejection is
\* rethrown (retryError) and processEmail returns null.
MailboxCreateSettles(u) ==
    /\ actPc[u] = "create"
    /\ LET folder == folderToMoveTo(itemAnalysis[u])
       IN  \E ok \in BOOLEAN :
             /\ mailboxOps' = [mailboxOps EXCEPT ![u] =
                                 Append(@, ClientCall("mailboxCreate", folder, ok))]
             /\ folders' = IF ok THEN folders \cup {folder} ELSE folders
             /\ actPc' = [actPc EXCEPT ![u] = IF ok THEN "reopen" ELSE "returnedNull"]
    /\ UNCHANGED <<sortIntoCategoryFolders, markAllRejectedEmailsRead, itemAnalysis>>
    /\ UNCHANGED notActVars

\* await this.client.mailboxOpen('INBOX') of the recovery settles.
ReopenSettles(u) ==
    /\ actPc[u] = "reopen"
    /\ \E ok \in BOOLEAN :
         /\ mailboxOps' = [mailboxOps EXCEPT ![u] =
                             Append(@, ClientCall("mailboxOpen", "INBOX", ok))]
         /\ actPc' = [actPc EXCEPT ![u] = IF ok THEN "retryMove" ELSE "returnedNull"]
    /\ UNCHANGED <<sortIntoCategoryFolders, markAllRejectedEmailsRead, itemAnalysis, folders>>
    /\ UNCHANGED notActVars

\* (a recovery that starts over when its move fails)
AfterRetryMoveAgain(ok) == IF ok THEN "returnedAnalysis" ELSE "create"

\* After the move of the recovery: the handler returns, or throws retryError
\* (rethrown by its outer catch; the inner catch of processEmail returns null).
AfterRetryMove(ok) == IF ok THEN "returnedAnalysis" ELSE "returnedNull"

\* await this.client.messageMove(...) of the recovery settles.
RetryMoveSettles(u) ==
    /\ actPc[u] = "retryMove"
    /\ LET folder == folderToMoveTo(itemAnalysis[u])
       IN  \E ok \in (IF folder \in folders THEN BOOLEAN ELSE {FALSE}) :
             /\ mailboxOps' = [mailboxOps EXCEPT ![u] =
                                 Append(@, ClientCall("messageMove", folder, ok))]
             /\ actPc' = [actPc EXCEPT ![u] = AfterRetryMove(ok)]
    /\ UNCHANGED <<sortIntoCategoryFolders, markAllRejectedEmailsRead, itemAnalysis, folders>>
    /\ UNCHANGED notActVars

\* ---- script mode: runProcessEmailsPeriodically ----

\* Largest number of runs of the periodic loop that is explored.
MaxRuns == 4

Runs == 1..MaxRuns

\* How await processEmails(timestamp) settles: the 200 result, the 500
\* result, or a rejection (the constructor of EmailProcessor or
\* createImapConnection threw).
RunOutcomes == {"200", "500", "threw"}

\* The loop is not running (server mode, or before the script starts).
ScriptIdle ==
    /\ runPc = [k \in Runs |-> "none"]
    /\ runResult = [k \in Runs |-> "none"]
    /\ pendingTimers = 0

\* await getLastTimestamp(...) settles; it catches its own read error.
GetLastTimestampSettles(k) ==
    /\ runPc[k] = "getTimestamp"
    /\ runPc' = [runPc EXCEPT ![k] = "processing"]
    /\ UNCHANGED <<runResult, pendingTimers>>
    /\ UNCHANGED notScriptVars

\* await processEmails(timestamp) settles: the result is logged, or the
\* catch block logs the error; either way the finally block is next.
ProcessEmailsSettles(k) ==
    /\ runPc[k] = "processing"
    /\ \E o \in RunOutcomes : runResult' = [runResult EXCEPT ![k] = o]
    /\ runPc' = [runPc EXCEPT ![k] = "finally"]
    /\ UNCHANGED pendingTimers
    /\ UNCHANGED notScriptVars

\* (a loop that schedules the next run at the end of its try block: nothing
\* is scheduled after a run that threw)
TimersAfterRunUnlessThrown(timers, o) == IF o = "threw" THEN timers ELSE timers + 1

\* finally { setTimeout(runProcessEmailsPeriodically, refreshIntervalMilliseconds) }
TimersAfterRun(timers, o) == timers + 1

\* The finally block of the run: the next run is scheduled and the run ends.
FinallySchedules(k) ==
    /\ runPc[k] = "finally"
    /\ pendingTimers' = TimersAfterRun(pendingTimers, runResult[k])
    /\ runPc' = [runPc EXCEPT ![k] = "ended"]
    /\ UNCHANGED runResult
    /\ UNCHANGED notScriptVars

\* A timer fires: runProcessEmailsPeriodically is called again, whatever
\* the other runs are doing.
TimerFires(k) ==
    /\ pendingTimers > 0
    /\ runPc[k] = "none"
    /\ \A j \in 1..(k - 1) : runPc[j] # "none"
    /\ pendingTimers' = pendingTimers - 1
    /\ runPc' = [runPc EXCEPT ![k] = "getTimestamp"]
    /\ UNCHANGED runResult
    /\ UNCHANGED notScriptVars

\* ---- fixJSON applied to fenced responses ----

\* Longest string value of the object <J> that is explored.
MaxContent == 3

\* The characters of the string value of <J>: a letter, the underscore, the
\* straight single quote, the backtick, a curly double quote, the backslash,
\* and the two characters \_ that the fourth replace of fixJSON matches (so
\* the text \\_ is a backslash followed by this symbol, and a backslash is
\* never followed by the plain underscore symbol).
ContentChars == {"t", "_", "SQ", "BT", "LDQ", "BS", "\\_"}

Contents ==
    {c \in UNION {[1..n -> ContentChars] : n \in 0..MaxContent} :
        \A k \in 1..(Len(c) - 1) : ~(c[k] = "BS" /\ c[k + 1] = "_")}

\* The text of the object <J>: {"<content>"}
ObjectText(content) == <<"{", "DQ">> \o content \o <<"DQ", "}">>

\* The two spellings of the fence: ```json\n<J>``` as backends write it, and
\* '''json\n<J>'''.
FenceChars == {"BT", "SQ"}
FencedWith(q, text) == <<q, q, q, "json\\n">> \o text \o <<q, q, q>>

\* What the decoding of a JSON string gives when an escape is invalid.
BadEscape == <<"SyntaxError">>

\* The content of a JSON string as JSON.parse decodes it: a backslash starts
\* an escape, \\ (also as the first half of \\_) is the escaped backslash,
\* \_ is no escape of JSON.
RECURSIVE DecodeString(_)
DecodeString(c) ==
    IF c = << >> THEN << >>
    ELSE IF Head(c) = "\\_" THEN BadEscape
    ELSE IF Head(c) = "BS"
      THEN IF Len(c) < 2 THEN BadEscape
           ELSE LET rest == DecodeString(SubSeq(c, 3, Len(c)))
                IN  IF rest = BadEscape THEN BadEscape
                    ELSE IF c[2] = "BS" THEN <<"BS">> \o rest
                    ELSE IF c[2] = "\\_" THEN <<"BS", "_">> \o rest
                    ELSE BadEscape
      ELSE LET rest == DecodeString(Tail(c))
           IN  IF rest = BadEscape THEN BadEscape ELSE <<Head(c)>> \o rest

\* JSON.parse of a text, the string value written out character by
\* character: the object with the decoded value of {"<content>"}, or
\* SyntaxError.
JSONparseObjectText(text) ==
    IF /\ Len(text) >= 4
       /\ SubSeq(text, 1, 2) = <<"{", "DQ">>
       /\ SubSeq(text, Len(text) - 1, Len(text)) = <<"DQ", "}">>
       /\ \A k \in 3..(Len(text) - 2) : text[k] \in ContentChars
       /\ DecodeString(SubSeq(text, 3, Len(text) - 2)) # BadEscape
      THEN [explanation |-> DecodeString(SubSeq(text, 3, Len(text) - 2))]
      ELSE SyntaxError

\* Before fixJSON is called.
FixIdle ==
    /\ fixInput = << >>
    /\ fixOutput = <<"pending">>

\* fixJSON is called with a fenced response.
InitFix ==
    /\ \E q \in FenceChars, c \in Contents : fixInput = FencedWith(q, ObjectText(c))
    /\ fixOutput = <<"pending">>
    /\ RetryCalled(DefaultRetries, DefaultRateLimitRetry)
    /\ SessionIdle
    /\ AnalyzerIdle
    /\ ActIdle
    /\ ScriptIdle

\* return fixJSON(result)
FixJSONReturns ==
    /\ fixOutput = <<"pending">>
    /\ fixOutput' = fixJSON(fixInput)
    /\ UNCHANGED fixInput
    /\ UNCHANGED notFixVars

NextFix == FixJSONReturns

SpecFix == InitFix /\ [][NextFix]_vars


(***************************************************************************)
(* Specifications                                                           *)
(***************************************************************************)

InitRetry ==
    /\ \E r \in RetriesParams, rl \in RateLimitParams : RetryCalled(r, rl)
    /\ SessionIdle
    /\ AnalyzerIdle
    /\ ActIdle
    /\ FixIdle
    /\ ScriptIdle

NextRetry ==
    \/ RetryLoop
    \/ AttemptSucceeds
    \/ AttemptFails
    \/ SleepDone

SpecRetry == InitRetry /\ [][NextRetry]_vars

\* Every await of executeOpenAIWithRetry settles: the API call is raced
\* against a timer, and the two sleeps are timers; so a step that is enabled
\* is eventually taken.
SpecRetryFair == InitRetry /\ [][NextRetry]_vars /\ WF_vars(NextRetry)

InitSession ==
    /\ batchSize \in 1..MaxBatchSize
    /\ maxEmailsToProcessAtOnce \in 1..MaxCap
    /\ processReadEmails \in BOOLEAN
    /\ starAllKeptEmails \in BOOLEAN
    /\ mainPc = "connect"
    /\ allMessages = 0
    /\ i = 0
    /\ processedCount = 0
    /\ errorCount = 0
    /\ totalProcessed = 0
    /\ atomicLock = {}
    /\ taskPc = [m \in Messages |-> "none"]
    /\ outcome = [m \in Messages |-> "none"]
    /\ admitted = << >>
    /\ lockState = "none"
    /\ watermarkWrites = 0
    /\ lastTimestamp = 0
    /\ sessionResult = NoResult
    /\ RetryCalled(DefaultRetries, DefaultRateLimitRetry)
    /\ AnalyzerIdle
    /\ ActIdle
    /\ FixIdle
    /\ ScriptIdle

NextSession ==
    \/ Connect
    \/ GetMailboxLock
    \/ FetchAll
    \/ LoopHead
    \/ \E m \in Messages : ParseSettles(m)
    \/ \E m \in Messages : AnalyzeSettles(m)
    \/ \E m \in Messages : ActionSettles(m)
    \/ \E m \in Messages : ItemCounts(m)
    \/ BatchDone
    \/ DelayDone
    \/ SaveSettles

SpecSession == InitSession /\ [][NextSession]_vars

InitGate ==
    /\ useLocalLLM \in BOOLEAN
    /\ requestPool = [openai |-> {}, local |-> {}]
    /\ reqPc = [r \in Requests |-> "idle"]
    /\ reqPrompt = [r \in Requests |-> 0]
    /\ reqCached = [r \in Requests |-> Unassigned]
    /\ reqRaw = [r \in Requests |-> << >>]
    /\ reqSettled = [r \in Requests |-> NoValue]
    /\ cache = [h \in Hashes |-> NoFile]
    /\ RetryCalled(DefaultRetries, DefaultRateLimitRetry)
    /\ SessionIdle
    /\ ActIdle
    /\ FixIdle
    /\ ScriptIdle

NextGate ==
    \/ \E r \in Requests : waitForAvailableSlot(r)
    \/ \E r \in Requests : CacheLookup(r)
    \/ \E r \in Requests : LocalStart(r)
    \/ \E r \in Requests : BackendSettles(r)
    \/ \E r \in Requests : CacheWriteSettles(r)

SpecGate == InitGate /\ [][NextGate]_vars

\* The cache and the verdict: the first MaxCalls calls of analyze(), which
\* may overlap or follow one another.
NextAnalyze ==
    \/ \E r \in 1..MaxCalls : waitForAvailableSlot(r)
    \/ \E r \in 1..MaxCalls : CacheLookup(r)
    \/ \E r \in 1..MaxCalls : LocalStart(r)
    \/ \E r \in 1..MaxCalls : BackendSettles(r)
    \/ \E r \in 1..MaxCalls : CacheWriteSettles(r)

SpecAnalyze == InitGate /\ [][NextAnalyze]_vars

\* The gate alone: every call is for the same prompt and every response is
\* the same JSON object, neither of which the pool depends on.
NextPool ==
    \/ \E r \in Requests : waitForAvailableSlotFor(r, {1})
    \/ \E r \in Requests : CacheLookup(r)
    \/ \E r \in Requests : LocalStart(r)
    \/ \E r \in Requests : BackendSettlesWith(r, {Plain("f")})
    \/ \E r \in Requests : CacheWriteSettles(r)

\* A continuation that is ready: a call that awaits Promise.race once a
\* promise of the pool has settled, a call that was given a slot, a file
\* operation or a backend call that settles (the timeout and the bounded
\* retries of executeOpenAIWithRetry; axios for the local backend).
Resume ==
    \E r \in Requests :
        \/ reqPc[r] = "race" /\ waitForAvailableSlotFor(r, {1})
        \/ CacheLookup(r)
        \/ LocalStart(r)
        \/ BackendSettlesWith(r, {Plain("f")})
        \/ CacheWriteSettles(r)

\* The event loop keeps running the continuations that are ready, and every
\* started operation settles. Calls need not be issued.
FairPool == WF_vars(Resume)

SpecPoolFair == InitGate /\ [][NextPool]_vars /\ FairPool

\* The messages have been parsed; the mailbox has the configured folders or
\* none of them.
InitAct ==
    /\ sortIntoCategoryFolders \in BOOLEAN
    /\ markAllRejectedEmailsRead \in BOOLEAN
    /\ actPc = [u \in Uids |-> "analyzing"]
    /\ itemAnalysis = [u \in Uids |-> NoAnalysis]
    /\ mailboxOps = [u \in Uids |-> << >>]
    /\ folders \in {{"INBOX"}, {"INBOX", rejectedFolderName} \cup categoryFolderNames}
    /\ \E star \in BOOLEAN : SessionIdleWith(star)
    /\ RetryCalled(DefaultRetries, DefaultRateLimitRetry)
    /\ AnalyzerIdle
    /\ FixIdle
    /\ ScriptIdle

NextAct ==
    \/ \E u \in Uids : AnalyzeEmailSettles(u)
    \/ \E u \in Uids : FlagSettles(u)
    \/ \E u \in Uids : MarkReadSettles(u)
    \/ \E u \in Uids : MailboxOpenSettles(u)
    \/ \E u \in Uids : MessageMoveSettles(u)
    \/ \E u \in Uids : MailboxCreateSettles(u)
    \/ \E u \in Uids : ReopenSettles(u)
    \/ \E u \in Uids : RetryMoveSettles(u)

SpecAct == InitAct /\ [][NextAct]_vars

\* runProcessEmailsPeriodically() is called once, directly.
InitScript ==
    /\ runPc = [k \in Runs |-> IF k = 1 THEN "getTimestamp" ELSE "none"]
    /\ runResult = [k \in Runs |-> "none"]
    /\ pendingTimers = 0
    /\ RetryCalled(DefaultRetries, DefaultRateLimitRetry)
    /\ SessionIdle
    /\ AnalyzerIdle
    /\ ActIdle
    /\ FixIdle

NextScript ==
    \/ \E k \in Runs : GetLastTimestampSettles(k)
    \/ \E k \in Runs : ProcessEmailsSettles(k)
    \/ \E k \in Runs : FinallySchedules(k)
    \/ \E k \in Runs : TimerFires(k)

SpecScript == InitScript /\ [][NextScript]_vars

(***************************************************************************)
(* Claims about the batch pipeline (SpecSession)                            *)
(***************************************************************************)

\* The batch a message belongs to (0, 1, ...).
BatchOf(m) == (m - 1) \div batchSize

Fetched == 1..allMessages
SettledTasks == {m \in Fetched : taskPc[m] = "settled" /\ outcome[m] # "notAdmitted"}
\* The items whose per-item task ended in its catch block.
TaskErrors == {m \in SettledTasks : ProcessEmailThrows(outcome[m])}
\* The items whose classification or action application failed.
FailedItems == {m \in SettledTasks : outcome[m] \in {"classifyFailed", "actionFailed"}}

\* C2: in one session the number of items passed to processEmail never
\* exceeds maxEmailsToProcessAtOnce.
C2_AdmittedWithinCap == Len(admitted) <= maxEmailsToProcessAtOnce

\* C3: when the session completes and no item failed or was skipped, exactly
\* min(N, M) items were classified (N fetched items, cap M): the batch in
\* which the cap is reached is cut to the remaining allowance.
C3_ClassifiedIsMinOfFetchedAndCap ==
    (/\ mainPc = "returned"
     /\ sessionResult.statusCode = 200
     /\ \A m \in Fetched : outcome[m] \in {"none", "acted"})
    => Len(admitted) = Min(allMessages, maxEmailsToProcessAtOnce)

\* C4: every admitted item whose classification failed terminally or whose
\* action application failed has incremented the error counter by exactly
\* one and is not counted as processed: the error counter is the number of
\* such items plus the items whose task threw, and the processed counter
\* counts the remaining settled items.
C4_FailedItemsCountAsErrors ==
    /\ errorCount = Cardinality(FailedItems) + Cardinality(TaskErrors)
    /\ processedCount = Cardinality(SettledTasks) - Cardinality(FailedItems)
                          - Cardinality(TaskErrors)

\* C6: the counters never lose or duplicate an increment: at every moment
\* processed + errors is the number of item tasks that have settled, errors
\* is the number of tasks that ended in their catch block, and the stats of
\* a completed session are processed = N - K and errors = K for N admitted
\* items of which K ended with an error.
C6_CountersExact ==
    /\ errorCount = Cardinality(TaskErrors)
    /\ processedCount = Cardinality(SettledTasks) - Cardinality(TaskErrors)
    /\ totalProcessed = processedCount
    /\ (mainPc = "returned" /\ sessionResult.statusCode = 200)
         => /\ sessionResult.errors = Cardinality(TaskErrors)
            /\ sessionResult.processed = Len(admitted) - Cardinality(TaskErrors)
            /\ sessionResult.processed + sessionResult.errors = Len(admitted)

\* A completed session with two concurrent batches in which one task ended
\* with an error and others were processed.
C6_Witness ==
    /\ mainPc = "returned"
    /\ sessionResult.statusCode = 200
    /\ batchSize = 2
    /\ sessionResult.errors >= 1
    /\ sessionResult.processed >= 2

\* C7: an item error never aborts the batch or the session: no item task
\* rejects, a session that admitted an item always reaches the end of the
\* loop (the watermark write), at that point every fetched item has settled
\* unless the cap stopped the loop, and the result is 500 only through a
\* session-level fault (before the first batch, or the watermark write).
C7_ItemErrorsIsolated ==
    /\ \A m \in Messages : taskPc[m] # "rejected"
    /\ mainPc \in {"save", "returned"} /\ watermarkWrites = 1
         => \A m \in Fetched :
              \/ taskPc[m] = "settled"
              \/ taskPc[m] = "none" /\ totalProcessed >= maxEmailsToProcessAtOnce
    /\ mainPc = "returned"
         => \/ watermarkWrites = 1
            \/ Len(admitted) = 0 /\ sessionResult.statusCode = 500
    /\ (mainPc = "returned" /\ sessionResult.statusCode = 500 /\ watermarkWrites = 1)
         => lockState = "released"

\* A completed session in which an item task failed while another item of
\* the same batch and an item of a later batch were processed.
C7_Witness ==
    /\ mainPc = "returned"
    /\ sessionResult.statusCode = 200
    /\ \E a, b, c \in Fetched :
         /\ a # b /\ BatchOf(a) = BatchOf(b) /\ BatchOf(a) < BatchOf(c)
         /\ outcome[a] = "parseThrow"
         /\ outcome[b] = "acted"
         /\ outcome[c] = "acted"

\* C8: batch barrier: whenever an item of a batch has been started, every
\* item task of every earlier batch has settled.
C8_BatchBarrier ==
    \A m, n \in Fetched :
        (BatchOf(m) < BatchOf(n) /\ taskPc[n] # "none") => taskPc[m] = "settled"

\* An item of the second batch is being processed after an item of the
\* first batch, which ran concurrently with another one, failed.
C8_Witness ==
    /\ batchSize = 2
    /\ \E m, n \in Fetched :
         /\ BatchOf(m) = 0 /\ BatchOf(n) = 1
         /\ outcome[m] = "parseThrow"
         /\ taskPc[n] = "analyzing"

\* C24: when the session finishes draining (the for loop is left, all batches
\* done or the cap reached) saveLastTimestamp is called exactly once, before
\* the result exists: the loop is left only into the watermark write, the
\* write is pending with no result yet, it is never called a second time, and
\* a completed result is returned only after it, whatever the error count.
C24_WatermarkWrittenOnceOnDrain ==
    /\ [](watermarkWrites <= 1)
    /\ [](mainPc = "save" => watermarkWrites = 1 /\ sessionResult = NoResult)
    /\ [](sessionResult.statusCode = 200 => mainPc = "returned" /\ watermarkWrites = 1)
    /\ [][(mainPc = "loop" /\ mainPc' \notin {"loop", "awaitBatch"})
            => mainPc' = "save" /\ watermarkWrites = 0 /\ watermarkWrites' = 1]_vars
    /\ [][mainPc = "save" => mainPc' = "returned" /\ watermarkWrites' = 1]_vars

\* A session that drained two batches, with an item ending in error, and
\* returned its result after the one watermark write.
C24_Witness ==
    /\ mainPc = "returned"
    /\ sessionResult.statusCode = 200
    /\ sessionResult.errors >= 1
    /\ allMessages > batchSize
    /\ watermarkWrites = 1

\* C25: a session that ended through a session-level fault (connect, the
\* mailbox lock, opening or fetching rejected: the 500 result) has still
\* called saveLastTimestamp, and its result carries the partial statistics
\* processed, errors and totalFound.
C25_FaultStillSavesAndReports ==
    (mainPc = "returned" /\ sessionResult.statusCode = 500)
        => /\ watermarkWrites >= 1
           /\ {"processed", "errors", "totalFound"} \subseteq DOMAIN sessionResult

\* C26: no item error and no session-level fault leaves process() as a
\* rejection: as long as process() has not returned some step of it can be
\* taken and there is no result yet, and once it has returned the result is an
\* object whose statusCode is 200 or 500; no item task is left rejected.
C26_ProcessAlwaysReturnsResult ==
    /\ mainPc # "returned" => sessionResult = NoResult /\ ENABLED NextSession
    /\ mainPc = "returned" => sessionResult.statusCode \in {200, 500}
    /\ \A m \in Messages : taskPc[m] # "rejected"

\* A session in which an item ended in error and which then met a
\* session-level fault (the watermark write rejected): it returned 500.
C26_Witness ==
    /\ mainPc = "returned"
    /\ sessionResult.statusCode = 500
    /\ errorCount >= 1
    /\ \E m \in Fetched : outcome[m] = "parseThrow"

\* C27: the inter-batch delay separates consecutive batches: the loop head
\* is reached with messages still to come only out of the delay, the delay is
\* entered only when every item task of the batch has settled, while it runs
\* every earlier item has settled and no later item has started, and a batch
\* is started only at the loop head.
C27_DelayBetweenBatches ==
    /\ [][(mainPc' = "loop" /\ mainPc # "loop" /\ 0 < i' /\ i' < allMessages)
            => mainPc = "delay"]_vars
    /\ [][(mainPc' = "delay" /\ mainPc # "delay")
            => mainPc = "awaitBatch" /\ BatchJoined(Batch(i, batchSize, allMessages))]_vars
    /\ [](mainPc = "delay"
            => \A m \in Fetched : IF m <= i + batchSize THEN taskPc[m] = "settled"
                                  ELSE taskPc[m] = "none")
    /\ [][(\E m \in Messages : taskPc[m] = "none" /\ taskPc'[m] # "none")
            => mainPc = "loop" /\ mainPc' = "awaitBatch"]_vars

\* The second batch is being drained: its first item has started, after the
\* delay that followed the first batch.
C27_Witness ==
    /\ mainPc = "awaitBatch"
    /\ i = batchSize
    /\ i < allMessages
    /\ taskPc[i + 1] \notin {"none", "settled"}
    /\ \A m \in 1..i : taskPc[m] = "settled"

\* C29: a connection lost while a batch is drained aborts the session. The
\* code observes the loss only as rejected client calls, so: when the
\* mailbox call of every item of a batch was rejected, no item of a later
\* batch is started, and the session does not end as completed.
C29_ConnectionLossAbortsSession ==
    \A m \in Fetched :
        (\A k \in Fetched : BatchOf(k) = BatchOf(m) => outcome[k] = "actionFailed")
            => /\ \A n \in Fetched : BatchOf(m) < BatchOf(n) => taskPc[n] = "none"
               /\ sessionResult.statusCode # 200

\* C39: the batches partition a prefix of the fetched list in original
\* order: the loop variable is a multiple of batchSize, a batch that starts
\* consists of exactly the not yet started items at the positions after i up
\* to i + batchSize (or the end of the list), the started items are always a
\* prefix of the list, and the items passed to processEmail are in strictly
\* increasing order, so none is passed twice.
C39_BatchesPartitionPrefix ==
    /\ [](i % batchSize = 0)
    /\ [](\A a, b \in 1..Len(admitted) : a < b => admitted[a] < admitted[b])
    /\ [](\A m \in Messages :
             taskPc[m] # "none" => m <= allMessages /\ \A k \in 1..m : taskPc[k] # "none")
    /\ [][(mainPc = "loop" /\ mainPc' = "awaitBatch")
            => /\ {m \in Messages : taskPc[m] = "none" /\ taskPc'[m] # "none"}
                    = {m \in Messages : i < m /\ m <= i + batchSize /\ m <= allMessages}
               /\ \A m \in Messages : taskPc[m] # "none" => taskPc'[m] = taskPc[m]]_vars

\* The second batch, shorter than batchSize, has been started after the
\* first one settled.
C39_Witness ==
    /\ batchSize = 2
    /\ allMessages = 3
    /\ i = 2
    /\ mainPc = "awaitBatch"
    /\ admitted = <<1, 2, 3>>
    /\ taskPc[4] = "none"

\* C37: the INBOX lock, once acquired, is released exactly once on every
\* path out of the session: it is released only while held and never changes
\* afterwards, process() does not return while holding it, and when it is
\* released every item task that was started has settled.
C37_LockReleasedOnceAfterTasks ==
    /\ [][(lockState' = "released" /\ lockState # "released") => lockState = "held"]_vars
    /\ [][(lockState = "released") => lockState' = "released"]_vars
    /\ [][(lockState = "held" /\ mainPc' = "returned") => lockState' = "released"]_vars
    /\ [](mainPc = "returned" => lockState # "held")
    /\ [](lockState = "released"
            => mainPc = "returned" /\ \A m \in Messages : taskPc[m] \in {"none", "settled"})

\* A session that acquired the lock, drained two batches with a failed item
\* and then failed at the watermark write: the lock is released.
C37_Witness ==
    /\ mainPc = "returned"
    /\ lockState = "released"
    /\ sessionResult.statusCode = 500
    /\ watermarkWrites = 1
    /\ allMessages > batchSize
    /\ \E m \in Fetched : outcome[m] = "classifyFailed"

\* C33: the watermark a session wrote is not later than the time of any
\* fetched item the session left unprocessed because the cap was reached, so
\* the timestamp filter of the next session (since: watermark) selects it.
C33_WatermarkNotPastUnprocessed ==
    (mainPc = "returned" /\ sessionResult.statusCode = 200)
        => \A m \in Fetched :
             (taskPc[m] = "none" /\ totalProcessed >= maxEmailsToProcessAtOnce)
                 => lastTimestamp <= ReceivedAt(m)

(***************************************************************************)
(* Claims about the request pool and analyze (SpecGate)                     *)
(***************************************************************************)

\* The backend calls that were started and have not settled.
InFlight == {r \in Requests : reqPc[r] = "backend"}

\* C1: for each backend kind, at most maxConcurrent backend calls are in
\* flight at any time, however many analyze() calls are issued concurrently.
C1_InFlightWithinMaxConcurrent == Cardinality(InFlight) <= maxConcurrent

\* C5: when the backend call of a request fails unrecoverably, analyze
\* reports an error to its caller and returns no verdict for that request.
C5_BackendFailureSurfacesAsError ==
    \A r \in Requests :
        (reqPc[r] = "done" /\ reqSettled[r].state = "rejected")
            => AnalyzeReturned(r).state = "rejected"

\* C17: the pool of the backend in use holds exactly the requests in
\* flight: a request whose backend call has started and not settled is in
\* the pool, and a request that has settled is not.
C17_PoolIsExactlyInFlight ==
    \A r \in Requests :
        /\ reqPc[r] = "backend" => r \in requestPool[PoolType]
        /\ reqPc[r] = "done" => r \notin requestPool[PoolType]

\* waitForAvailableSlot was called for the request; `await
\* this.waitForAvailableSlot(type)` has completed and analyzeWithOpenAI /
\* analyzeWithLocalLLM has gone on.
SlotCalled(r) == reqPc[r] # "idle"
SlotReturned(r) == reqPc[r] \in {"backend", "writing", "done"}

\* C18: every call of waitForAvailableSlot eventually returns, given that
\* every backend call that was started settles, whether it succeeds or
\* fails: whenever a call has not returned yet, a state follows in which
\* every call issued so far has returned (a call that returned stays so).
C18_GateConverges ==
    (\E r \in Requests : SlotCalled(r) /\ ~SlotReturned(r))
        ~> (\A r \in Requests : SlotCalled(r) => SlotReturned(r))

\* A call issued after maxConcurrent others has returned, and every one of
\* the earlier requests made its backend call and failed.
C18_Witness ==
    \E r \in Requests :
        /\ r > maxConcurrent
        /\ SlotReturned(r)
        /\ \A q \in 1..(r - 1) : reqPc[q] = "done" /\ reqSettled[q] = Rejected(BackendError)

(***************************************************************************)
(* Claims about the cache and the verdict (SpecAnalyze)                     *)
(***************************************************************************)

\* The first calls of analyze(), the ones SpecAnalyze issues.
Calls == 1..MaxCalls

\* The call was answered from the cache: analyzeWithOpenAI returned cachedData.
ServedFromCache(r) ==
    /\ reqPc[r] = "done"
    /\ reqSettled[r].state = "resolved"
    /\ reqSettled[r].value.type = "object"

\* The call went to the backend, its response was written to the cache
\* (the call read nothing, or something else, at its own lookup) and
\* analyze() returned a verdict other than 'unknown' for it.
LiveAccepted(r) ==
    /\ reqPc[r] = "done"
    /\ reqRaw[r] # << >>
    /\ reqSettled[r].state = "resolved"
    /\ AnalyzeReturned(r).state = "resolved"
    /\ AnalyzeReturned(r).value.judgment # "unknown"

\* Call r2 read, at its lookup, the cache entry that holds the response of
\* call r1 for the same prompt and parameters.
ReadEntryOf(r2, r1) ==
    /\ r1 # r2
    /\ reqPrompt[r1] = reqPrompt[r2]
    /\ createPromptHash(reqPrompt[r1], openAIParams(reqPrompt[r1]))
         = createPromptHash(reqPrompt[r2], openAIParams(reqPrompt[r2]))
    /\ reqRaw[r1] # << >>
    /\ reqCached[r2] = reqRaw[r1]

\* C12: a call for the same prompt and parameters as an earlier call that
\* completed successfully, and which read the cache entry of that call, is
\* served from the cache without a backend call, whatever response the
\* earlier call accepted (fenced and curly-quoted responses included).
C12_RepeatServedFromCache ==
    \A r1, r2 \in Calls :
        (LiveAccepted(r1) /\ ReadEntryOf(r2, r1)) => ServedFromCache(r2)

\* C13: a call served from the cache returns the verdict that the live call
\* which populated the entry returned, never the 'unknown' verdict.
C13_CacheHitKeepsVerdict ==
    \A r1, r2 \in Calls :
        (LiveAccepted(r1) /\ ReadEntryOf(r2, r1) /\ ServedFromCache(r2))
            => /\ AnalyzeReturned(r2) = AnalyzeReturned(r1)
               /\ AnalyzeReturned(r2).value.judgment # "unknown"

\* The verdict analyze() returns for a backend response.
VerdictOf(text) == analyze(Resolved(StringValue(fixJSON(text))))

\* C14: every entry of the cache holds a response that analyze() parsed
\* into a verdict: no entry holds a response whose parsing failed or whose
\* verdict is 'unknown'.
C14_CacheHoldsOnlyVerdicts ==
    \A h \in Hashes :
        cache[h] # NoFile => VerdictOf(cache[h]).value.judgment # "unknown"

\* The lookup of the call failed: no file or a storage error, or an entry
\* that is not valid JSON.
LookupFailed(r) ==
    /\ ~useLocalLLM
    /\ reqPc[r] \in {"backend", "writing", "done"}
    /\ \/ reqCached[r] = Unassigned
       \/ JSONparseText(reqCached[r]) = SyntaxError

\* C15: a call whose cache lookup failed goes on to the backend call, with
\* its request promise in flight, and ends with the answer or the error of
\* the backend, never with the error of the lookup.
C15_LookupFailureIsMiss ==
    /\ [][\A r \in Calls :
            (reqPc[r] = "slot" /\ LookupFailed(r)')
                => /\ reqPc'[r] = "backend"
                   /\ r \in requestPool'.openai
                   /\ reqSettled'[r] = NoValue]_vars
    /\ [](\A r \in Calls :
            (LookupFailed(r) /\ reqPc[r] = "done")
                => \/ reqSettled[r] = Resolved(StringValue(fixJSON(reqRaw[r])))
                   \/ reqSettled[r] = Rejected(BackendError))

\* A call that read an entry which is not valid JSON, another that found
\* nothing to read; both made the backend call and got its answer.
C15_Witness ==
    \E r1, r2 \in Calls :
        /\ LookupFailed(r1) /\ reqCached[r1] = Unassigned
        /\ LookupFailed(r2) /\ reqCached[r2] # Unassigned
        /\ reqPc[r1] = "done" /\ reqPc[r2] = "done"
        /\ reqRaw[r2] # << >>
        /\ reqSettled[r2].state = "resolved"

\* C16: whether or not the write of the cache file succeeds, the call
\* resolves with the normalised response of the backend call and its
\* promise is no longer in the pool.
C16_WriteFailureSwallowed ==
    [][\A r \in Calls :
          (reqPc[r] = "writing" /\ reqPc'[r] # "writing")
              => /\ reqPc'[r] = "done"
                 /\ reqSettled'[r] = Resolved(StringValue(fixJSON(reqRaw[r])))
                 /\ r \notin requestPool'.openai]_vars

\* A call whose backend call succeeded and whose cache write failed (the
\* file is still missing) returned the response.
C16_Witness ==
    \E r \in Calls :
        /\ reqPc[r] = "done"
        /\ reqRaw[r] = Plain("f")
        /\ cache[createPromptHash(reqPrompt[r], openAIParams(reqPrompt[r]))] = NoFile
        /\ reqSettled[r] = Resolved(StringValue(Plain("f")))
        /\ r \notin requestPool.openai

\* The backend answered the call with a text that does not parse after
\* normalisation.
MalformedResponse(r) ==
    /\ reqPc[r] = "done"
    /\ reqSettled[r].state = "resolved"
    /\ reqSettled[r].value.type = "string"
    /\ JSONparseText(reqSettled[r].value.text) = SyntaxError

\* C19: a call whose response does not parse after normalisation returns
\* the 'unknown' verdict (analyze resolves, it does not throw), and the call
\* is over: no further backend call is made for it.
C19_MalformedResponseIsUnknown ==
    /\ [](\A r \in Calls :
            MalformedResponse(r) => AnalyzeReturned(r) = Resolved(defaultAnalysis))
    /\ [][\A r \in Calls :
            MalformedResponse(r) => /\ reqPc'[r] = "done"
                                    /\ reqRaw'[r] = reqRaw[r]
                                    /\ reqSettled'[r] = reqSettled[r]]_vars

\* A call answered with prose returned the 'unknown' verdict while a later
\* call was being processed.
C19_Witness ==
    \E r1, r2 \in Calls :
        /\ MalformedResponse(r1)
        /\ reqSettled[r1].value.text = Prose
        /\ AnalyzeReturned(r1).value.judgment = "unknown"
        /\ reqPc[r2] = "backend"

\* C28: the cache is looked up before the gate: a call that is answered from
\* the cache (analyzeWithOpenAI returns cachedData) has not called
\* waitForAvailableSlot, so the step that returns the cached entry is never
\* the step of a call that has been through the gate.
C28_CacheHitBypassesGate ==
    [][\A r \in Calls :
         (reqPc[r] # "done" /\ ServedFromCache(r)')
             => reqPc[r] \notin {"race", "slot"}]_vars

\* Two sessions overlap (two GET /process-emails requests being served) and
\* issue the calls of analyzeEmail alternately.
SessionOf(r) == ((r - 1) % 2) + 1

\* C32: the request pools are scoped to one session: a pass of one session's
\* call through the gate (waitForAvailableSlot) leaves the in-flight requests
\* of the other session in the pool they were registered in.
C32_PoolsScopedToSession ==
    [][\A r \in Calls :
         (reqPc[r] \in {"idle", "race"} /\ reqPc'[r] # reqPc[r])
             => \A q \in requestPool[PoolType] :
                  (SessionOf(q) # SessionOf(r) /\ reqPc[q] = "backend")
                      => q \in requestPool'[PoolType]]_vars

(***************************************************************************)
(* Claims about script mode (SpecScript)                                    *)
(***************************************************************************)

\* The runs that are active: started and not yet through their finally block.
ActiveRuns == {k \in Runs : runPc[k] \in {"getTimestamp", "processing", "finally"}}

\* C38: in script mode at most one run is active at any time, and whenever
\* no run is active exactly one timer for the next run is pending, whether
\* the run before returned 200, returned 500 or threw: the active runs and
\* the pending timers always add up to one, and (within the runs explored)
\* some step of the loop can always be taken.
C38_OneRunAndAlwaysRescheduled ==
    /\ Cardinality(ActiveRuns) <= 1
    /\ Cardinality(ActiveRuns) + pendingTimers = 1
    /\ runPc[MaxRuns] = "none" => ENABLED NextScript

\* The third run is active after a run that threw and a run that returned
\* the 500 result.
C38_Witness ==
    /\ runResult[1] = "threw"
    /\ runResult[2] = "500"
    /\ runPc[3] = "processing"
    /\ pendingTimers = 0

(***************************************************************************)
(* Claims about fixJSON (SpecFix)                                           *)
(***************************************************************************)

\* The object text <J> between the fence markers of the input.
FencedObject == SubSeq(fixInput, 5, Len(fixInput) - 3)

\* <J> is a valid JSON object without a curly quote, a backtick or three
\* single quotes in a row.
NoQuoteSequenceAffected ==
    /\ JSONparseObjectText(FencedObject) # SyntaxError
    /\ \A k \in 1..Len(FencedObject) : FencedObject[k] \notin {"LDQ", "BT"}
    /\ \A k \in 1..(Len(FencedObject) - 2) :
          SubSeq(FencedObject, k, k + 2) # <<"SQ", "SQ", "SQ">>

\* fixJSON returned <J> itself, and JSON.parse of it gives the fields of <J>.
ReturnsFencedObject ==
    /\ fixOutput = FencedObject
    /\ JSONparseObjectText(fixOutput) # SyntaxError
    /\ JSONparseObjectText(fixOutput) = JSONparseObjectText(FencedObject)

\* C34 as stated: for a fenced response whose <J> is a valid JSON object
\* with no quote or backtick sequence that the replacements touch, fixJSON
\* returns exactly <J> and parsing it gives the fields of <J>.
C34_FenceStripped ==
    (fixOutput # <<"pending">> /\ NoQuoteSequenceAffected) => ReturnsFencedObject

\* C34: the same, for a <J> that also holds no backslash-underscore (\_)
\* sequence.
C34_FenceStrippedWithoutEscapedUnderscore ==
    (/\ fixOutput # <<"pending">>
     /\ NoQuoteSequenceAffected
     /\ \A k \in 1..Len(FencedObject) : FencedObject[k] # "\\_")
        => ReturnsFencedObject

\* fixJSON has returned for a backtick-fenced object whose string holds an
\* escaped backslash and a single quote.
C34_Witness ==
    /\ fixOutput # <<"pending">>
    /\ fixInput[1] = "BT"
    /\ NoQuoteSequenceAffected
    /\ \E a, b \in 1..Len(FencedObject) :
         FencedObject[a] = "BS" /\ FencedObject[b] = "SQ"
    /\ \A k \in 1..Len(FencedObject) : FencedObject[k] # "\\_"
    /\ fixOutput = FencedObject

(***************************************************************************)
(* Claims about the mailbox operations (SpecAct)                            *)
(***************************************************************************)

\* C20: for a message whose verdict is 'unknown', processEmail returns null
\* and no call of the mailbox client is made: no flag is added, no folder
\* is created, the message is not moved.
C20_UnknownVerdictDoesNotAct ==
    \A u \in Uids :
        itemAnalysis[u].judgment = "unknown"
            => /\ actPc[u] = "returnedNull"
               /\ mailboxOps[u] = << >>

\* A message with the 'unknown' verdict was left alone while a rejected
\* message of the same run was moved.
C20_Witness ==
    \E u, v \in Uids :
        /\ itemAnalysis[u] = defaultAnalysis
        /\ actPc[u] = "returnedNull"
        /\ mailboxOps[u] = << >>
        /\ itemAnalysis[v].judgment = "false"
        /\ actPc[v] = "returnedAnalysis"
        /\ \E k \in 1..Len(mailboxOps[v]) :
             mailboxOps[v][k].op = "messageMove" /\ mailboxOps[v][k].ok

\* The destinations a rejected message may go to under the configuration.
ConfiguredDestinations ==
    IF sortIntoCategoryFolders THEN categoryFolderNames ELSE {rejectedFolderName}

\* The positions in the log of a message of the calls of one client method.
CallsOf(u, op) == {k \in 1..Len(mailboxOps[u]) : mailboxOps[u][k].op = op}

\* C21: every folder that was created and every folder a message was moved
\* to is a configured destination: a configured category label when
\* sortIntoCategoryFolders is on, the fallback folder otherwise.
C21_DestinationsAreConfigured ==
    \A u \in Uids :
        \A k \in CallsOf(u, "messageMove") \cup CallsOf(u, "mailboxCreate") :
            mailboxOps[u][k].ok => mailboxOps[u][k].arg \in ConfiguredDestinations

\* processEmail has returned for the message.
ActReturned(u) == actPc[u] \in {"returnedNull", "returnedAnalysis"}

\* The move of the first attempt (the one made before any recovery) failed,
\* at position k of the log of the message.
FirstMoveFailedAt(u, k) ==
    /\ k \in CallsOf(u, "messageMove")
    /\ \A j \in CallsOf(u, "mailboxCreate") : k < j
    /\ ~mailboxOps[u][k].ok

\* C22: per message the move is attempted at most twice and the folder
\* creation at most once. After a first move that failed, the calls that
\* follow are, in this order and each only if the one before succeeded:
\* mailboxCreate of the destination, mailboxOpen of INBOX, messageMove to
\* the destination, and nothing else; the recovery is always begun; when
\* its move fails the handler throws (processEmail ends with null).
C22_OneRecoveryAfterFailedMove ==
    \A u \in Uids :
        LET ops == mailboxOps[u]
            dest == folderToMoveTo(itemAnalysis[u])
        IN  /\ Cardinality(CallsOf(u, "messageMove")) <= 2
            /\ Cardinality(CallsOf(u, "mailboxCreate")) <= 1
            /\ \A k \in 1..Len(ops) :
                 FirstMoveFailedAt(u, k) =>
                    /\ Len(ops) <= k + 3
                    /\ ActReturned(u) => Len(ops) > k
                    /\ Len(ops) > k =>
                         /\ ops[k + 1].op = "mailboxCreate" /\ ops[k + 1].arg = dest
                         /\ (ActReturned(u) /\ Len(ops) = k + 1) => ~ops[k + 1].ok
                    /\ Len(ops) > k + 1 =>
                         /\ ops[k + 1].ok
                         /\ ops[k + 2].op = "mailboxOpen" /\ ops[k + 2].arg = "INBOX"
                         /\ (ActReturned(u) /\ Len(ops) = k + 2) => ~ops[k + 2].ok
                    /\ Len(ops) > k + 2 =>
                         /\ ops[k + 2].ok
                         /\ ops[k + 3].op = "messageMove" /\ ops[k + 3].arg = dest
                         /\ ActReturned(u)
                         /\ ~ops[k + 3].ok => actPc[u] = "returnedNull"

\* A message whose first move failed, whose folder was then created, INBOX
\* reopened, and whose second move failed too: the handler threw.
C22_Witness ==
    \E u \in Uids, k \in 1..3 :
        /\ Len(mailboxOps[u]) = k + 3
        /\ FirstMoveFailedAt(u, k)
        /\ mailboxOps[u][k + 1].op = "mailboxCreate" /\ mailboxOps[u][k + 1].ok
        /\ mailboxOps[u][k + 3].op = "messageMove" /\ ~mailboxOps[u][k + 3].ok
        /\ actPc[u] = "returnedNull"

\* The moves of the message that succeeded.
SuccessfulMoves(u) == {k \in CallsOf(u, "messageMove") : mailboxOps[u][k].ok}

\* The first move of the message failed and its destination folder was then
\* created.
CreatedAfterFailedMove(u) ==
    \E k \in 1..Len(mailboxOps[u]) :
        /\ FirstMoveFailedAt(u, k)
        /\ Len(mailboxOps[u]) > k
        /\ mailboxOps[u][k + 1].op = "mailboxCreate"
        /\ mailboxOps[u][k + 1].ok

\* C23 as stated: a message whose first move failed and whose folder was
\* then created ends with exactly one successful move.
C23_ExactlyOneMoveAfterCreation ==
    \A u \in Uids :
        (ActReturned(u) /\ CreatedAfterFailedMove(u))
            => Cardinality(SuccessfulMoves(u)) = 1

\* C23, amended: a message is moved at most once and a move that succeeded
\* is the last call made for it; a message whose first move failed and whose
\* folder was then created ends with one successful move when the reopening
\* of INBOX and the second move succeed, and else with none and a throw.
C23_AtMostOneMove ==
    \A u \in Uids :
        /\ Cardinality(SuccessfulMoves(u)) <= 1
        /\ \A k \in SuccessfulMoves(u) : k = Len(mailboxOps[u]) /\ ActReturned(u)
        /\ (ActReturned(u) /\ CreatedAfterFailedMove(u))
             => LET last == mailboxOps[u][Len(mailboxOps[u])]
                IN  IF last.ok
                      THEN /\ last.op = "messageMove"
                           /\ Cardinality(SuccessfulMoves(u)) = 1
                           /\ actPc[u] = "returnedAnalysis"
                      ELSE /\ last.op \in {"mailboxOpen", "messageMove"}
                           /\ SuccessfulMoves(u) = {}
                           /\ actPc[u] = "returnedNull"

\* A message whose first move failed, whose folder was created, and whose
\* second move succeeded.
C23_Witness ==
    \E u \in Uids :
        /\ actPc[u] = "returnedAnalysis"
        /\ CreatedAfterFailedMove(u)
        /\ Cardinality(CallsOf(u, "messageMove")) = 2
        /\ Cardinality(SuccessfulMoves(u)) = 1

\* The positions in the log of a message of the calls that add one flag.
FlagCalls(u, flag) ==
    {k \in CallsOf(u, "messageFlagsAdd") : mailboxOps[u][k].arg = flag}

RecoversFromFailedMove(u) ==
    /\ \A k \in CallsOf(u, "mailboxOpen") : mailboxOps[u][k].ok
    /\ \E k \in 1..Len(mailboxOps[u]) : FirstMoveFailedAt(u, k)

\* C36: items of one batch that are rejected into the same missing folder
\* all end up moved: when the recovery of another item, started by its failed
\* move, has created the folder, the folder creation of this item's own
\* recovery does not make the recovery fail, it goes on to reopen INBOX and
\* move.
C36_ConcurrentRecoveriesAllMove ==
    [][\A u \in Uids :
         (/\ actPc[u] = "create"
          /\ actPc'[u] # "create"
          /\ RecoversFromFailedMove(u)
          /\ folderToMoveTo(itemAnalysis[u]) \in folders
          /\ \E v \in Uids \ {u} :
               /\ RecoversFromFailedMove(v)
               /\ \E k \in CallsOf(v, "mailboxCreate") :
                    /\ mailboxOps[v][k].ok
                    /\ mailboxOps[v][k].arg = folderToMoveTo(itemAnalysis[u]))
             => actPc'[u] = "reopen"]_vars

(***************************************************************************)
(* Claims about executeOpenAIWithRetry (SpecRetry)                          *)
(***************************************************************************)

\* The failures caught so far that were not rate-limit failures.
OrdinaryFailures == {k \in 1..Len(failures) : ~IsRateLimit(failures[k])}

\* C9: a rate-limit failure does not advance the ordinary attempt counter:
\* attempts counts the ordinary failures only, so the ordinary retries still
\* available do not depend on the number of rate-limit failures.
C9_RateLimitKeepsOrdinaryBudget == attempts = Cardinality(OrdinaryFailures)

\* C10: with the default budgets a call whose every attempt fails with a
\* rate-limit error ends only at the 11th such failure, with the terminal
\* rate-limit error.
C10_EleventhRateLimitFailureIsTerminal ==
    (/\ retries = DefaultRetries
     /\ rateLimitRetry = DefaultRateLimitRetry
     /\ execPc = "thrown"
     /\ \A k \in 1..Len(failures) : IsRateLimit(failures[k]))
    => /\ Len(failures) = DefaultRateLimitRetry + 1
       /\ thrown = RateLimitExceeded

\* C11: the backend is never invoked more than `retries` times, and a call
\* whose first `retries` attempts all failed with ordinary errors makes no
\* further attempt: it is past its last attempt, never returns a result, and
\* ends by throwing the last error (with retries = 3: after three ordinary
\* failures there is no fourth attempt).
C11_NoAttemptBeyondRetries ==
    /\ calls <= retries
    /\ (Len(failures) = retries /\ Cardinality(OrdinaryFailures) = retries)
         => /\ calls = retries
            /\ execPc \in {"loop", "sleepBackoff", "thrown"}
            /\ execPc = "thrown" =>
                  thrown = (IF retries = 0 THEN NoError ELSE failures[retries])

\* A call with retries = 3 that threw after three ordinary failures.
C11_Witness ==
    /\ retries = DefaultRetries
    /\ execPc = "thrown"
    /\ calls = DefaultRetries
    /\ Len(failures) = DefaultRetries
    /\ Cardinality(OrdinaryFailures) = DefaultRetries
    /\ thrown = failures[DefaultRetries]

\* C31: whichever budget is exhausted, the error thrown by
\* executeOpenAIWithRetry is the last error the backend call failed with
\* (the same error value).
C31_TerminalFailureIsLastError ==
    (execPc = "thrown" /\ failures # << >>) => thrown = failures[Len(failures)]

\* C35: every call of executeOpenAIWithRetry ends, by returning or by
\* throwing; the backend is invoked at most `retries` times whatever the mix
\* of failures; and once an attempt has succeeded nothing further happens.
C35_TerminatesWithinRetries ==
    /\ <>(execPc \in {"returned", "thrown"})
    /\ [](calls <= retries /\ Len(failures) <= calls)
    /\ [][(execPc \in {"returned", "thrown"}) => (execPc' = execPc /\ calls' = calls)]_vars

\* A call that returned from its last permitted attempt after a rate-limit
\* failure, a timeout and an ordinary failure.
C35_Witness ==
    /\ execPc = "returned"
    /\ retries = 4
    /\ calls = retries
    /\ \E a, b, c \in 1..Len(failures) :
         /\ IsRateLimit(failures[a])
         /\ failures[b].message = "Timeout"
         /\ failures[c].status = 500

====
